---- MODULE Spec2Model ----
(***************************************************************************)
(* Model of checkm/markerGeneFinder.py: MarkerGeneFinder.find seeds a work *)
(* queue, starts totalThreads worker processes (__processBin) and one      *)
(* reporter process (__reportProgress), joins them and returns a copy of   *)
(* the managed dictionary binIdToModels.                                   *)
(*                                                                         *)
(* Python strings are modelled as sequences of tokens, so that a file name *)
(* <<dir, base, ext>> and the bin identifier <<base>> derived from it are  *)
(* different values; None is the empty sequence.                           *)
(***************************************************************************)
EXTENDS Integers, Sequences, FiniteSets, TLC

\* ---------------------------------------------------------------- bounds
MaxThreads == 2
MaxBins == 2
MaxFairThreads == 2
MaxFairBins == 2
MaxBudgetThreads == 10
MaxBudgetBins == 5

\* ------------------------------------------------------------- constants
INFO == 20
WARNING == 30

None == <<>>

VARIABLES
    totalThreads,       \* self.totalThreads
    binFiles,           \* argument binFiles of find
    logLevel,           \* self.logger.getEffectiveLevel()
    threadsPerSearch,   \* self.threadsPerSearch (0: not yet assigned)
    workerQueue,        \* workerQueue of find / queueIn of __processBin
    writerQueue,        \* writerQueue of find / queueOut of __processBin
    binIdToModels,      \* the managed dictionary
    pcFind,             \* position of find
    p,                  \* index of the loops over calcProc
    d,                  \* the dictionary find returns
    pcCalc,             \* position of each worker process
    binFile,            \* local binFile of each worker
    pcWrite,            \* position of the reporter process
    numProcessedBins,   \* local counter of __reportProgress
    stderr,             \* what __reportProgress wrote to sys.stderr
    binDirs,            \* per-bin output directories that exist
    orfsCalled,         \* bins whose gene-calling output exists
    hmmModelFiles,      \* temporary model files that exist
    prodigalRuns,       \* how often prodigal.run has been invoked on each bin
    hmmerTables,        \* bins whose HMMER output files have been written
    dequeued            \* history: what each worker took from workerQueue

vars == <<totalThreads, binFiles, logLevel, threadsPerSearch, workerQueue,
          writerQueue, binIdToModels, pcFind, p, d, pcCalc, binFile, pcWrite,
          numProcessedBins, stderr, binDirs, orfsCalled, hmmModelFiles,
          prodigalRuns, hmmerTables, dequeued>>

inputs == <<totalThreads, binFiles, logLevel>>
findVars == <<threadsPerSearch, pcFind, p, d>>
fsVars == <<binDirs, orfsCalled, hmmModelFiles, prodigalRuns, hmmerTables>>
writeVars == <<pcWrite, numProcessedBins, stderr>>

\* ---------------------------------------------------------------- helpers
Max2(a, b) == IF a >= b THEN a ELSE b

Workers == 1..totalThreads

\* the k-th input file: <<directory, base name, extension>>
BinFileOf(k) == <<"binFolder", k, "fna">>

\* common.binIdFromFilename: base name without directory and extension
binIdFromFilename(f) == SubSeq(f, 2, 2)

\* HmmModelParser(hmmModelFile).models() for the model file of a bin
models(binId) == <<"models">> \o binId

BinIds == {binIdFromFilename(binFiles[k]) : k \in 1..Len(binFiles)}

DictSetLost(m, k, v) == m

DictSetReplace(m, k, v) == [x \in {k} |-> v]

\* dict item assignment m[k] = v
DictSet(m, k, v) == [x \in (DOMAIN m) \cup {k} |-> IF x = k THEN v ELSE m[x]]

EmptyDict == [x \in {} |-> None]

\* ------------------------------------------------------------------- find
ThreadsPerSearchNoMax(t, n) == t \div n

ThreadsPerSearchAll(t, n) == t

\* line 45: max(1, int(self.totalThreads / len(binFiles)))
ThreadsPerSearch(t, n) == Max2(1, t \div n)

InitCommon ==
    /\ threadsPerSearch = 0
    /\ workerQueue = <<>>
    /\ writerQueue = <<>>
    /\ binIdToModels = EmptyDict
    /\ pcFind = "budget"
    /\ p = 0
    /\ d = EmptyDict
    /\ pcCalc = [w \in Workers |-> "unstarted"]
    /\ binFile = [w \in Workers |-> None]
    /\ pcWrite = "unstarted"
    /\ numProcessedBins = 0
    /\ stderr = <<>>
    /\ binDirs = {}
    /\ hmmModelFiles = {}
    /\ prodigalRuns = [b \in BinIds |-> 0]
    /\ hmmerTables = {}
    /\ dequeued = [w \in Workers |-> <<>>]

Init ==
    /\ totalThreads \in 1..MaxThreads
    /\ \E n \in 0..MaxBins : binFiles = [k \in 1..n |-> BinFileOf(k)]
    /\ logLevel \in {INFO, WARNING}
    /\ orfsCalled \in SUBSET BinIds
    /\ InitCommon

\* line 45-46: a division by len(binFiles) = 0 raises ZeroDivisionError
Find_Budget ==
    /\ pcFind = "budget"
    /\ \/ /\ Len(binFiles) = 0
          /\ pcFind' = "ZeroDivisionError"
          /\ UNCHANGED threadsPerSearch
       \/ /\ Len(binFiles) > 0
          /\ threadsPerSearch' = ThreadsPerSearch(totalThreads, Len(binFiles))
          /\ pcFind' = "seed"
    /\ UNCHANGED <<inputs, workerQueue, writerQueue, binIdToModels, p, d,
                   pcCalc, binFile, writeVars, fsVars, dequeued>>

SentinelsShort(n) == [k \in 1..(n - 1) |-> None]

SentinelsExtra(n) == [k \in 1..(n + 1) |-> None]

\* line 55-56: one None per worker
Sentinels(n) == [k \in 1..n |-> None]

\* line 49-60: the queues, the jobs, the sentinels, the managed dict
Find_Seed ==
    /\ pcFind = "seed"
    /\ workerQueue' = binFiles \o Sentinels(totalThreads)
    /\ writerQueue' = <<>>
    /\ binIdToModels' = EmptyDict
    /\ pcFind' = "startWrite"
    /\ UNCHANGED <<inputs, threadsPerSearch, p, d, pcCalc, binFile, writeVars,
                   fsVars, dequeued>>

\* line 62: writeProc.start()
Find_StartWrite ==
    /\ pcFind = "startWrite"
    /\ pcWrite' = "init"
    /\ pcFind' = "startCalc"
    /\ p' = 1
    /\ UNCHANGED <<inputs, threadsPerSearch, workerQueue, writerQueue,
                   binIdToModels, d, pcCalc, binFile, numProcessedBins, stderr,
                   fsVars, dequeued>>

\* line 64-65: p.start() for each worker in turn; the started process runs
\* line 83 and reaches the top of its loop
Find_StartCalc ==
    /\ pcFind = "startCalc"
    /\ IF p <= totalThreads
         THEN /\ pcCalc' = [pcCalc EXCEPT ![p] = "get"]
              /\ p' = p + 1
              /\ UNCHANGED pcFind
         ELSE /\ pcFind' = "joinCalc"
              /\ p' = 1
              /\ UNCHANGED pcCalc
    /\ UNCHANGED <<inputs, threadsPerSearch, workerQueue, writerQueue,
                   binIdToModels, d, binFile, writeVars, fsVars, dequeued>>

ExitedAlways(w) == TRUE

ExitedCleanly(w) == pcCalc[w] = "terminated"

\* a process has exited: it returned, or it died of an uncaught error
Exited(w) == pcCalc[w] \in {"terminated", "crashed"}

\* line 67-68: p.join() returns once process p has exited, whatever its exit code
Find_JoinCalc ==
    /\ pcFind = "joinCalc"
    /\ IF p <= totalThreads
         THEN /\ Exited(p)
              /\ p' = p + 1
              /\ UNCHANGED pcFind
         ELSE /\ pcFind' = "putNone"
              /\ UNCHANGED p
    /\ UNCHANGED <<inputs, threadsPerSearch, workerQueue, writerQueue,
                   binIdToModels, d, pcCalc, binFile, writeVars, fsVars,
                   dequeued>>

\* line 70: writerQueue.put(None)
Find_PutNone ==
    /\ pcFind = "putNone"
    /\ writerQueue' = Append(writerQueue, None)
    /\ pcFind' = "joinWrite"
    /\ UNCHANGED <<inputs, threadsPerSearch, workerQueue, binIdToModels, p, d,
                   pcCalc, binFile, writeVars, fsVars, dequeued>>

WriterExitedAlways == TRUE

\* the reporter process has exited: it returned, or it died of an error
WriterExited == pcWrite \in {"done", "crashed"}

\* line 71: writeProc.join() returns once the reporter has exited
Find_JoinWrite ==
    /\ pcFind = "joinWrite"
    /\ WriterExited
    /\ pcFind' = "copy"
    /\ UNCHANGED <<inputs, threadsPerSearch, workerQueue, writerQueue,
                   binIdToModels, p, d, pcCalc, binFile, writeVars, fsVars,
                   dequeued>>

CopyDictKeys(m) == [k \in DOMAIN m |-> k]

CopyDictUnlessReporterDied(m) ==
    IF pcWrite = "done" THEN [k \in DOMAIN m |-> m[k]] ELSE EmptyDict

\* line 74-76: d[binId] = binIdToModels[binId] for every key
CopyDict(m) == [k \in DOMAIN m |-> m[k]]

\* line 73-78: copy the managed dictionary and return it
Find_Return ==
    /\ pcFind = "copy"
    /\ d' = CopyDict(binIdToModels)
    /\ pcFind' = "returned"
    /\ UNCHANGED <<inputs, threadsPerSearch, workerQueue, writerQueue,
                   binIdToModels, p, pcCalc, binFile, writeVars, fsVars,
                   dequeued>>

\* ----------------------------------------------------------- __processBin
calcVars == <<inputs, findVars, writeVars>>

\* line 90: the bin the worker is processing
binId(w) == binIdFromFilename(binFile[w])

QueueGetKeep(q) == q

\* Queue.get: the queue without the item taken from its head
QueueGet(q) == Tail(q)

\* line 86-92: blocking get; None ends the loop and the process, anything
\* else is a bin file whose output directory is created if it is missing
PB_Get(w) ==
    /\ pcCalc[w] = "get"
    /\ workerQueue # <<>>
    /\ workerQueue' = QueueGet(workerQueue)
    /\ dequeued' = [dequeued EXCEPT ![w] = Append(@, Head(workerQueue))]
    /\ binFile' = [binFile EXCEPT ![w] = Head(workerQueue)]
    /\ IF Head(workerQueue) = None
         THEN /\ pcCalc' = [pcCalc EXCEPT ![w] = "terminated"]
              /\ UNCHANGED binDirs
         ELSE /\ pcCalc' = [pcCalc EXCEPT ![w] = "prodigal"]
              /\ binDirs' = binDirs \cup {binIdFromFilename(Head(workerQueue))}
    /\ UNCHANGED <<calcVars, writerQueue, binIdToModels, orfsCalled,
                   hmmModelFiles, prodigalRuns, hmmerTables>>

ProdigalNeededAlways(b) == TRUE

\* line 96: not prodigal.areORFsCalled()
ProdigalNeeded(b) == b \notin orfsCalled

\* line 95-97: run the gene caller unless its output exists; the run either
\* writes the gene file or ends the process with a fatal error
PB_Prodigal(w) ==
    /\ pcCalc[w] = "prodigal"
    /\ \/ /\ ~ProdigalNeeded(binId(w))
          /\ pcCalc' = [pcCalc EXCEPT ![w] = "createHmm"]
          /\ UNCHANGED <<orfsCalled, prodigalRuns>>
       \/ /\ ProdigalNeeded(binId(w))
          /\ prodigalRuns' = [prodigalRuns EXCEPT ![binId(w)] = @ + 1]
          /\ orfsCalled' = orfsCalled \cup {binId(w)}
          /\ pcCalc' = [pcCalc EXCEPT ![w] = "createHmm"]
       \/ /\ ProdigalNeeded(binId(w))
          /\ prodigalRuns' = [prodigalRuns EXCEPT ![binId(w)] = @ + 1]
          /\ pcCalc' = [pcCalc EXCEPT ![w] = "crashed"]
          /\ UNCHANGED orfsCalled
    /\ UNCHANGED <<calcVars, workerQueue, writerQueue, binIdToModels, binFile,
                   binDirs, hmmModelFiles, hmmerTables, dequeued>>

\* line 100: markerSetParser.createHmmModelFile writes the temporary model
\* file, or fails fatally
PB_CreateHmm(w) ==
    /\ pcCalc[w] = "createHmm"
    /\ \/ /\ hmmModelFiles' = hmmModelFiles \cup {binId(w)}
          /\ pcCalc' = [pcCalc EXCEPT ![w] = "parse"]
       \/ /\ pcCalc' = [pcCalc EXCEPT ![w] = "crashed"]
          /\ UNCHANGED hmmModelFiles
    /\ UNCHANGED <<calcVars, workerQueue, writerQueue, binIdToModels, binFile,
                   binDirs, orfsCalled, prodigalRuns, hmmerTables, dequeued>>

\* line 103-104: binIdToModels[binId] = modelParser.models()
PB_Parse(w) ==
    /\ pcCalc[w] = "parse"
    /\ binIdToModels' = DictSet(binIdToModels, binId(w), models(binId(w)))
    /\ pcCalc' = [pcCalc EXCEPT ![w] = "hmmer"]
    /\ UNCHANGED <<calcVars, workerQueue, writerQueue, binFile, fsVars, dequeued>>

\* line 107-116: hmmer.search writes its tables, or fails fatally
PB_Hmmer(w) ==
    /\ pcCalc[w] = "hmmer"
    /\ \/ /\ hmmerTables' = hmmerTables \cup {binId(w)}
          /\ pcCalc' = [pcCalc EXCEPT ![w] = "remove"]
       \/ /\ pcCalc' = [pcCalc EXCEPT ![w] = "crashed"]
          /\ UNCHANGED hmmerTables
    /\ UNCHANGED <<calcVars, workerQueue, writerQueue, binIdToModels, binFile,
                   binDirs, orfsCalled, hmmModelFiles, prodigalRuns, dequeued>>

RemoveFileNoop(files, f) == files

\* os.remove: the files without f
RemoveFile(files, f) == files \ {f}

\* line 118: os.remove(hmmModelFile)
PB_Remove(w) ==
    /\ pcCalc[w] = "remove"
    /\ hmmModelFiles' = RemoveFile(hmmModelFiles, binId(w))
    /\ pcCalc' = [pcCalc EXCEPT ![w] = "put"]
    /\ UNCHANGED <<calcVars, workerQueue, writerQueue, binIdToModels, binFile,
                   binDirs, orfsCalled, prodigalRuns, hmmerTables, dequeued>>

\* line 120: queueOut.put(binId), then back to the top of the loop
PB_Put(w) ==
    /\ pcCalc[w] = "put"
    /\ writerQueue' = Append(writerQueue, binId(w))
    /\ pcCalc' = [pcCalc EXCEPT ![w] = "get"]
    /\ UNCHANGED <<calcVars, workerQueue, binIdToModels, binFile, fsVars,
                   dequeued>>

\* --------------------------------------------------------- __reportProgress
StatusLine(n) == <<"Finished processing", n, "of", Len(binFiles)>>

NewLine == <<"newline">>

NextCountStuck(n) == n

\* line 137: numProcessedBins += 1
NextCount(n) == n + 1

\* line 126, 136, 142: self.logger.getEffectiveLevel() <= logging.INFO
Reporting == logLevel <= INFO

InitialCountOne == 0 + 1

\* line 125: numProcessedBins = 0
InitialCount == 0

\* line 125-129: the counter starts at 0; the first status line
RP_Init ==
    /\ pcWrite = "init"
    /\ numProcessedBins' = InitialCount
    /\ stderr' = IF Reporting THEN Append(stderr, StatusLine(InitialCount))
                              ELSE stderr
    /\ pcWrite' = "get"
    /\ UNCHANGED <<inputs, findVars, workerQueue, writerQueue, binIdToModels,
                   pcCalc, binFile, fsVars, dequeued>>

\* line 131-143: blocking get; None ends the loop, anything else is counted
\* and reported when the log level allows it
RP_Get ==
    /\ pcWrite = "get"
    /\ writerQueue # <<>>
    /\ writerQueue' = QueueGet(writerQueue)
    /\ IF Head(writerQueue) = None
         THEN /\ pcWrite' = "done"
              /\ stderr' = IF Reporting THEN Append(stderr, NewLine) ELSE stderr
              /\ UNCHANGED numProcessedBins
         ELSE /\ pcWrite' = "get"
              /\ numProcessedBins' =
                    IF Reporting THEN NextCount(numProcessedBins) ELSE numProcessedBins
              /\ stderr' = IF Reporting
                             THEN Append(stderr, StatusLine(NextCount(numProcessedBins)))
                             ELSE stderr
    /\ UNCHANGED <<inputs, findVars, workerQueue, binIdToModels, pcCalc,
                   binFile, fsVars, dequeued>>

\* line 128-129, 139-140, 143: a write to sys.stderr fails (the stream is
\* closed or its reader is gone) and the error ends the reporter process; in
\* the loop the item it had taken from the queue is gone with it
RP_Fail ==
    /\ Reporting
    /\ \/ /\ pcWrite = "init"
          /\ UNCHANGED writerQueue
       \/ /\ pcWrite = "get"
          /\ writerQueue # <<>>
          /\ writerQueue' = QueueGet(writerQueue)
    /\ pcWrite' = "crashed"
    /\ UNCHANGED <<inputs, findVars, workerQueue, binIdToModels, pcCalc,
                   binFile, numProcessedBins, stderr, fsVars, dequeued>>

\* ---------------------------------------------------------- specification
Find ==
    \/ Find_Budget
    \/ Find_Seed
    \/ Find_StartWrite
    \/ Find_StartCalc
    \/ Find_JoinCalc
    \/ Find_PutNone
    \/ Find_JoinWrite
    \/ Find_Return

ProcessBin(w) ==
    \/ PB_Get(w)
    \/ PB_Prodigal(w)
    \/ PB_CreateHmm(w)
    \/ PB_Parse(w)
    \/ PB_Hmmer(w)
    \/ PB_Remove(w)
    \/ PB_Put(w)

ReportProgress == RP_Init \/ RP_Get

Next ==
    \/ Find
    \/ \E w \in Workers : ProcessBin(w)
    \/ ReportProgress

Spec == Init /\ [][Next]_vars

\* the operating system keeps running every process that can take a step
Fairness ==
    /\ WF_vars(Find)
    /\ WF_vars(ReportProgress)
    /\ \A w \in 1..(MaxFairThreads + 1) :
           WF_vars(w <= totalThreads /\ ProcessBin(w))

\* a fresh run, or a rerun over bins whose genes have all been called
InitFair ==
    /\ totalThreads \in 1..MaxFairThreads
    /\ \E n \in 0..MaxFairBins : binFiles = [k \in 1..n |-> BinFileOf(k)]
    /\ logLevel = INFO
    /\ orfsCalled \in {{}, BinIds}
    /\ InitCommon

FairSpec == InitFair /\ [][Next]_vars /\ Fairness

\* the runs in which, in addition, the reporter may die of a failed write to
\* sys.stderr
NextStderrFails == Next \/ RP_Fail

SpecStderrFails == Init /\ [][NextStderrFails]_vars

\* the thread budget alone, over a wider range of inputs
InitBudget ==
    /\ totalThreads \in 1..MaxBudgetThreads
    /\ \E n \in 0..MaxBudgetBins : binFiles = [k \in 1..n |-> BinFileOf(k)]
    /\ logLevel = INFO
    /\ orfsCalled = {}
    /\ InitCommon

SpecBudget == InitBudget /\ [][Find_Budget]_vars

\* ------------------------------------------------------- derived notions
NoFailure == \A w \in Workers : pcCalc[w] # "crashed"

SomeCrashed == \E w \in Workers : pcCalc[w] = "crashed"

AllExited == \A w \in Workers : pcCalc[w] \in {"terminated", "crashed"}

AllTerminated == \A w \in Workers : pcCalc[w] = "terminated"

\* the places <<w, k>> at which item x was taken from the work queue
Takes(x) ==
    {wk \in Workers \X (1..(Len(binFiles) + totalThreads + 1)) :
        /\ wk[2] <= Len(dequeued[wk[1]])
        /\ dequeued[wk[1]][wk[2]] = x}

\* the bins whose pipeline ran to its end, the notification included: every
\* job a worker took before its latest one, and the latest one too when the
\* worker is back at the top of its loop
CompletedBins ==
    {binIdFromFilename(dequeued[wk[1]][wk[2]]) :
        wk \in {x \in Workers \X (1..(Len(binFiles) + totalThreads + 1)) :
                   /\ x[2] <= Len(dequeued[x[1]])
                   /\ dequeued[x[1]][x[2]] # None
                   /\ \/ x[2] < Len(dequeued[x[1]])
                      \/ pcCalc[x[1]] = "get"}}

Started == pcFind \notin {"budget", "ZeroDivisionError", "seed", "startWrite"}

\* ------------------------------------------------------------------ C1
\* C1: in a run without failures, once every worker has terminated, every
\* job has been taken from the work queue exactly once over all workers,
\* every worker has taken exactly one sentinel, and the work queue is empty.
C1_EachItemDequeuedOnce ==
    (Started /\ AllExited /\ NoFailure) =>
        /\ workerQueue = <<>>
        /\ \A k \in 1..Len(binFiles) : Cardinality(Takes(binFiles[k])) = 1
        /\ Cardinality(Takes(None)) = totalThreads
        /\ \A w \in Workers :
              Cardinality({k \in 1..Len(dequeued[w]) : dequeued[w][k] = None}) = 1

C1_Witness ==
    /\ AllTerminated
    /\ Len(binFiles) = 2
    /\ totalThreads = 2
    /\ \A w \in Workers : Len(dequeued[w]) = 2

\* ------------------------------------------------------------------ C2
\* C2: when find returns after a run without failures, the keys of the
\* returned dictionary are exactly the identifiers of the input bins, and
\* each bin was taken from the work queue once.
C2_ReturnedKeysAreAllBins ==
    (pcFind = "returned" /\ NoFailure) =>
        /\ DOMAIN d = BinIds
        /\ Cardinality(DOMAIN d) = Len(binFiles)
        /\ \A k \in 1..Len(binFiles) : Cardinality(Takes(binFiles[k])) = 1

C2_Witness ==
    /\ pcFind = "returned"
    /\ NoFailure
    /\ Len(binFiles) = 2
    /\ totalThreads = 2
    /\ Cardinality(DOMAIN d) = 2

\* ------------------------------------------------------------------ C3
\* C3 (as claimed): at the end of any run, failed jobs included, the keys
\* of the result map are exactly the bins whose pipeline completed.
C3_KeysAreCompletedBins ==
    pcFind = "returned" => DOMAIN binIdToModels = CompletedBins

\* ------------------------------------------------------------------ C4
\* C4: under fair scheduling a run with at least one bin and no failure
\* leads to every worker having taken a sentinel and terminated, the
\* reporter being done and find having returned.
C4_NoFailureRunTerminates ==
    (Len(binFiles) >= 1) ~>
        (SomeCrashed \/ (AllTerminated /\ pcWrite = "done" /\ pcFind = "returned"))

\* jobs unevenly distributed: one worker did both jobs, the other none
C4_Witness ==
    /\ pcFind = "returned"
    /\ AllTerminated
    /\ pcWrite = "done"
    /\ totalThreads = 2
    /\ Len(binFiles) = 2
    /\ \E w \in Workers : Len(dequeued[w]) = 3

\* ------------------------------------------------------------------ C5
\* C5: the sentinel of the completion queue is enqueued only once every
\* worker has exited, it is behind every notification, and the reporter
\* stops only when nothing is left in the queue; without failures all the
\* bins have been notified by then.
C5_SentinelAfterAllCompletions ==
    /\ ((\E k \in 1..Len(writerQueue) : writerQueue[k] = None)
          \/ pcFind \in {"joinWrite", "copy", "returned"} \/ pcWrite = "done")
        => (AllExited /\ (NoFailure => CompletedBins = BinIds))
    /\ \A k \in 1..Len(writerQueue) :
          writerQueue[k] = None => k = Len(writerQueue)
    /\ pcWrite = "done" => writerQueue = <<>>

C5_Witness ==
    /\ pcWrite = "done"
    /\ NoFailure
    /\ Len(binFiles) = 2
    /\ totalThreads = 2

\* ------------------------------------------------------------------ C6
\* C6 (as claimed): in a run without failures the counter of the reporter
\* equals the number of bins when the reporter stops.
C6_CounterIsN ==
    (pcWrite = "done" /\ NoFailure) => numProcessedBins = Len(binFiles)

\* C6 (amended): the counter never exceeds the number of bins, and when the
\* log level is INFO or lower it equals the number of notifications taken
\* from the queue, which is the number of bins when the reporter stops after
\* a run without failures; at a higher log level it stays 0.
C6_CounterIsNWhenReporting ==
    /\ numProcessedBins <= Len(binFiles)
    /\ (Started /\ Reporting) =>
          numProcessedBins = Cardinality(CompletedBins) - Len(SelectSeq(writerQueue, LAMBDA x : x # None))
    /\ (pcWrite = "done" /\ NoFailure /\ Reporting) =>
          numProcessedBins = Len(binFiles)
    /\ ~Reporting => numProcessedBins = 0

C6_Witness ==
    /\ pcWrite = "done"
    /\ NoFailure
    /\ Reporting
    /\ numProcessedBins = 2

\* ------------------------------------------------------------------ C7
\* C7: once computed, the thread budget b is at least 1 and is the floor of
\* totalThreads / jobCount whenever that is at least 1:
\* b * jobCount <= totalThreads < (b + 1) * jobCount; (8,3) gives 2,
\* (2,5) gives 1 and (10,1) gives 10.
C7_ThreadBudget ==
    (pcFind = "seed") =>
        /\ threadsPerSearch >= 1
        /\ totalThreads >= Len(binFiles) =>
              /\ threadsPerSearch * Len(binFiles) <= totalThreads
              /\ totalThreads < (threadsPerSearch + 1) * Len(binFiles)
        /\ totalThreads < Len(binFiles) => threadsPerSearch = 1
        /\ (totalThreads = 8 /\ Len(binFiles) = 3) => threadsPerSearch = 2
        /\ (totalThreads = 2 /\ Len(binFiles) = 5) => threadsPerSearch = 1
        /\ (totalThreads = 10 /\ Len(binFiles) = 1) => threadsPerSearch = 10

C7_Witness ==
    /\ pcFind = "seed"
    /\ totalThreads = 2
    /\ Len(binFiles) = 5
    /\ threadsPerSearch = 1

\* ------------------------------------------------------------------ C8
\* C8 (as claimed): called with no bins, find never attempts the division
\* by the number of bins and starts no process.
C8_ZeroBinsRefused ==
    Len(binFiles) = 0 =>
        /\ pcFind # "ZeroDivisionError"
        /\ pcWrite = "unstarted"
        /\ \A w \in Workers : pcCalc[w] = "unstarted"

\* ------------------------------------------------------------------ C9
\* C9 (as claimed): when a worker died of a fatal error while processing a
\* bin, find does not return normally.
C9_FailureSurfaced ==
    SomeCrashed => pcFind # "returned"

\* ----------------------------------------------------------------- C10
\* C10: whichever workers die while processing, find goes on to join every
\* worker, enqueue the reporter's sentinel, join the reporter and finish,
\* with every worker exited and the reporter done; find is never past its
\* joins while a worker or the reporter is still running or blocked.
C10_FailedRunStillJoins ==
    /\ SomeCrashed ~> (pcFind = "returned" /\ AllExited /\ pcWrite = "done"
                         /\ writerQueue = <<>>)
    /\ [](pcFind \in {"copy", "returned"} => (AllExited /\ pcWrite = "done"))

C10_Witness ==
    /\ pcFind = "returned"
    /\ pcWrite = "done"
    /\ totalThreads = 2
    /\ \E w \in Workers : pcCalc[w] = "crashed"
    /\ \E w \in Workers : pcCalc[w] = "terminated"

\* ----------------------------------------------------------------- C11
\* C11: the step in which a worker dies of a fatal error leaves the result
\* map as it was, no step of any process removes or changes an entry of the
\* map, and when find returns after a failure every bin whose pipeline had
\* completed is in the returned dictionary with its models.
C11_FailureKeepsCompletedEntries ==
    /\ [][(\E w \in Workers : pcCalc[w] # "crashed" /\ pcCalc'[w] = "crashed")
              => binIdToModels' = binIdToModels]_vars
    /\ [][\A b \in DOMAIN binIdToModels :
              b \in DOMAIN binIdToModels' /\ binIdToModels'[b] = binIdToModels[b]]_vars
    /\ []((pcFind = "returned" /\ SomeCrashed) =>
              \A b \in CompletedBins : b \in DOMAIN d /\ d[b] = models(b))

C11_Witness ==
    /\ pcFind = "returned"
    /\ SomeCrashed
    /\ Len(binFiles) = 2
    /\ Cardinality(CompletedBins) = 1
    /\ CompletedBins \subseteq DOMAIN d

\* ----------------------------------------------------------------- C12
\* C12: the dictionary find returns after a run without failures is the
\* same function of the input bins, each bin id mapped to the models of that
\* bin, whatever the number of workers (1, or as many as bins) and whatever
\* the interleaving: a serial and a maximally parallel run return the same.
C12_ResultIndependentOfParallelism ==
    (pcFind = "returned" /\ NoFailure
       /\ (totalThreads = 1 \/ totalThreads = Len(binFiles))) =>
        d = [b \in BinIds |-> models(b)]

\* maximal parallelism: two bins, two workers, one bin each
C12_Witness ==
    /\ pcFind = "returned"
    /\ NoFailure
    /\ totalThreads = 2
    /\ Len(binFiles) = 2
    /\ \A w \in Workers : Len(dequeued[w]) = 2
    /\ Cardinality(DOMAIN d) = 2

\* ----------------------------------------------------------------- C13
\* C13: a worker leaving the gene-calling step for its bin invokes the gene
\* caller exactly when the gene-calling output of that bin does not exist
\* yet, and nothing else invokes it; when the output exists the caller is
\* not invoked and the worker goes on to model extraction, and every bin
\* whose pipeline completed has its map entry, its search tables, no model
\* file left and its notification sent.
C13_ProdigalIffNoOutput ==
    /\ [][\A b \in BinIds :
              /\ prodigalRuns'[b] \in {prodigalRuns[b], prodigalRuns[b] + 1}
              /\ (prodigalRuns'[b] = prodigalRuns[b] + 1) <=>
                    (\E w \in Workers :
                        /\ pcCalc[w] = "prodigal"
                        /\ pcCalc'[w] # "prodigal"
                        /\ binIdFromFilename(binFile[w]) = b
                        /\ b \notin orfsCalled)]_vars
    /\ [][\A w \in Workers :
              (/\ pcCalc[w] = "prodigal"
               /\ pcCalc'[w] # "prodigal"
               /\ binIdFromFilename(binFile[w]) \in orfsCalled)
                 => pcCalc'[w] = "createHmm"]_vars
    /\ [](\A b \in CompletedBins :
              /\ b \in DOMAIN binIdToModels
              /\ b \in hmmerTables
              /\ b \notin hmmModelFiles)

\* a bin whose gene calls existed went through the whole pipeline without
\* the gene caller being invoked
C13_Witness ==
    \E b \in CompletedBins :
        /\ prodigalRuns[b] = 0
        /\ b \in orfsCalled
        /\ b \in hmmerTables

\* ----------------------------------------------------------------- C14
StatusLines == SelectSeq(stderr, LAMBDA x : x # NewLine)

\* C14 (as claimed): with reporting enabled the reporter has written exactly
\* N status lines when it stops after a run of N bins without failures.
C14_ExactlyNStatusLines ==
    (pcWrite = "done" /\ NoFailure /\ Reporting) =>
        Len(StatusLines) = Len(binFiles)

\* C14 (amended): with reporting enabled the reporter writes one status
\* line showing 0 of N when it starts and one more per notification it takes
\* from the queue, the k-th of these showing k of N: N + 1 status lines when
\* it stops after a run of N bins without failures, the last showing N of N.
C14_InitialLinePlusOnePerCompletion ==
    /\ (Reporting /\ pcWrite \in {"get", "done"}) =>
          /\ Len(StatusLines) = numProcessedBins + 1
          /\ \A k \in 1..Len(StatusLines) : StatusLines[k] = StatusLine(k - 1)
    /\ (pcWrite = "done" /\ NoFailure /\ Reporting) =>
          /\ Len(StatusLines) = Len(binFiles) + 1
          /\ StatusLines[Len(StatusLines)] = StatusLine(Len(binFiles))
          /\ stderr = Append(StatusLines, NewLine)

C14_Witness ==
    /\ pcWrite = "done"
    /\ NoFailure
    /\ Reporting
    /\ Len(binFiles) = 2
    /\ Len(StatusLines) = 3

\* ----------------------------------------------------------------- C15
\* the bins whose worker has passed the map write of line 104, told from the
\* workers alone: the bins before a worker's latest one, and the latest one
\* when the worker is past the write, or died with the model file on disk
WrittenBins ==
    {binIdFromFilename(dequeued[wk[1]][wk[2]]) :
        wk \in {x \in Workers \X (1..(Len(binFiles) + totalThreads + 1)) :
                   /\ x[2] <= Len(dequeued[x[1]])
                   /\ dequeued[x[1]][x[2]] # None
                   /\ \/ x[2] < Len(dequeued[x[1]])
                      \/ pcCalc[x[1]] \in {"get", "hmmer", "remove", "put"}
                      \/ /\ pcCalc[x[1]] = "crashed"
                         /\ binIdFromFilename(dequeued[x[1]][x[2]]) \in hmmModelFiles}}

\* C15: the result map, and the dictionary find returns, are at every moment
\* determined by what the workers have done: they are the same whether the
\* reporter writes progress, is silenced by the log level, or has died
\* before taking every notification from the completion queue.
C15_ResultIndependentOfReporter ==
    /\ binIdToModels = [b \in WrittenBins |-> models(b)]
    /\ pcFind = "returned" => d = [b \in WrittenBins |-> models(b)]

\* find has returned both bins although the reporter died with a
\* notification still in the queue
C15_Witness ==
    /\ pcFind = "returned"
    /\ pcWrite = "crashed"
    /\ \E k \in 1..Len(writerQueue) : writerQueue[k] # None
    /\ Cardinality(DOMAIN d) = 2

\* ----------------------------------------------------------------- C16
\* C16: the step in which find copies the result map is taken only when
\* every worker has exited and the reporter has finished, it copies the map
\* as it is, nothing else assigns the returned dictionary, and the map does
\* not change once find is at or past the copy.
C16_MapReadAfterAllJoined ==
    /\ [][(pcFind = "copy" /\ pcFind' = "returned") =>
              (AllExited /\ pcWrite = "done" /\ d' = binIdToModels)]_vars
    /\ [][d' # d => (pcFind = "copy" /\ pcFind' = "returned")]_vars
    /\ [][(pcFind \in {"copy", "returned"}) => binIdToModels' = binIdToModels]_vars

C16_Witness ==
    /\ pcFind = "returned"
    /\ totalThreads = 2
    /\ Cardinality(DOMAIN d) = 2
    /\ d = binIdToModels

\* ----------------------------------------------------------------- C17
\* C17: every change of the result map after its creation adds one key that
\* was not in it, the bin id of the worker making the step, with the models
\* of that bin, and leaves every other entry as it was; that worker is the
\* only one that took the bin from the work queue, and took it once.
C17_EachKeyWrittenOnce ==
    /\ [][(binIdToModels' # binIdToModels /\ pcFind # "seed") =>
              \E w \in Workers :
                  /\ pcCalc[w] = "parse"
                  /\ pcCalc'[w] = "hmmer"
                  /\ binIdFromFilename(binFile[w]) \notin DOMAIN binIdToModels
                  /\ DOMAIN binIdToModels' =
                        DOMAIN binIdToModels \cup {binIdFromFilename(binFile[w])}
                  /\ binIdToModels'[binIdFromFilename(binFile[w])] =
                        models(binIdFromFilename(binFile[w]))
                  /\ \A b \in DOMAIN binIdToModels :
                        binIdToModels'[b] = binIdToModels[b]
                  /\ Takes(binFile[w]) = {<<w, Len(dequeued[w])>>}]_vars
    /\ [](\A k \in 1..Len(binFiles) :
              binIdFromFilename(binFiles[k]) \in DOMAIN binIdToModels =>
                  Cardinality(Takes(binFiles[k])) = 1)

\* two workers have each written the key of their own bin
C17_Witness ==
    /\ totalThreads = 2
    /\ Cardinality(DOMAIN binIdToModels) = 2
    /\ \A w \in Workers : \E k \in 1..Len(dequeued[w]) : dequeued[w][k] # None

\* ----------------------------------------------------------------- C18
\* the bin ids that have been pushed onto the completion queue
Notified ==
    CompletedBins \cup {writerQueue[k] : k \in {j \in 1..Len(writerQueue) : writerQueue[j] # None}}

\* C18: a worker processing a bin has, at each position of the pipeline, done
\* every earlier step and no later one: directory, gene calls, model file,
\* map entry, search tables, deletion of the model file, notification; so
\* every bin id pushed onto the completion queue is a key of the result map,
\* has its search tables and has no model file left.
C18_PipelineOrder ==
    /\ \A w \in Workers :
          pcCalc[w] \in {"prodigal", "createHmm", "parse", "hmmer", "remove", "put"} =>
              LET b == binIdFromFilename(binFile[w]) IN
              /\ b \in binDirs
              /\ b \notin Notified
              /\ (b \in orfsCalled) \/ pcCalc[w] = "prodigal"
              /\ (b \in hmmModelFiles) <=> (pcCalc[w] \in {"parse", "hmmer", "remove"})
              /\ (b \in DOMAIN binIdToModels) <=> (pcCalc[w] \in {"hmmer", "remove", "put"})
              /\ (b \in hmmerTables) <=> (pcCalc[w] \in {"remove", "put"})
    /\ \A b \in Notified :
          /\ b \in binDirs
          /\ b \in orfsCalled
          /\ b \in DOMAIN binIdToModels
          /\ b \in hmmerTables
          /\ b \notin hmmModelFiles

\* one bin notified and still in the queue while another is being searched
C18_Witness ==
    /\ \E k \in 1..Len(writerQueue) : writerQueue[k] # None
    /\ \E w \in Workers : pcCalc[w] = "hmmer"

\* ----------------------------------------------------------------- C19
\* C19 (as claimed): a worker that is not processing a bin, having finished
\* with it or died on it, has left no model file of a bin it took, so no
\* model file exists once every worker has exited.
C19_ModelFileAlwaysDeleted ==
    /\ \A w \in Workers :
          pcCalc[w] \in {"get", "terminated", "crashed"} =>
              \A k \in 1..Len(dequeued[w]) :
                  dequeued[w][k] # None =>
                      binIdFromFilename(dequeued[w][k]) \notin hmmModelFiles
    /\ AllExited => hmmModelFiles = {}

\* ----------------------------------------------------------------- C20
\* the workers that are processing a bin
Processing ==
    {w \in Workers :
        pcCalc[w] \in {"prodigal", "createHmm", "parse", "hmmer", "remove", "put"}}

\* C20: the number of workers processing a bin, times the threads each
\* search is given, never exceeds the total number of threads.
C20_ThreadBudgetRespected ==
    Cardinality(Processing) * threadsPerSearch <= totalThreads

\* every worker is processing a bin at the same time
C20_Witness ==
    /\ totalThreads = 2
    /\ Len(binFiles) = 2
    /\ Cardinality(Processing) = 2
    /\ \E w \in Workers : pcCalc[w] = "hmmer"

====
